---- MODULE Spec2Model ----
(***************************************************************************)
(* Jailhouse, ARM architecture support: the per-cell stage-2 translation   *)
(* manager (hypervisor/arch/arm/mmu_cell.c) and the identity-map scratch   *)
(* allocator and exception-level transition engine                         *)
(* (hypervisor/arch/arm/mmu_hyp.c).                                        *)
(*                                                                         *)
(* The generic paging code (paging_create, paging_destroy,                 *)
(* paging_virt2phys, page_alloc_aligned, page_free) is not part of the     *)
(* sources at hand; it is modelled at page granularity from its contract.  *)
(***************************************************************************)
EXTENDS Integers, Naturals, Sequences, FiniteSets, TLC

(***************************************************************************)
(* Bounds of the model.                                                    *)
(***************************************************************************)
\* number of cell slots
NumCells == 2
\* number of pages of mem_pool
PoolPages == 2
\* largest region size, in pages
MaxRegionPages == 2
\* number of cores
NumCpus == 1
\* number of translations a core's TLB holds
TlbEntries == 1
\* number of cores that enter the hypervisor
NumBootCpus == 2
\* number of endpoints of the shared-memory device
NumEndpoints == 2
\* largest size, in pages, of a device that is mapped
MaxDevPages == 2

(***************************************************************************)
(* Program constants.                                                      *)
(***************************************************************************)
\* asm/paging.h
PAGE_SIZE == 4096
\* asm/paging.h: pages of a stage-2 root table
ARM_CELL_ROOT_PT_SZ == 1
\* jailhouse/paging.h: ~0UL, the "no translation" result of paging_virt2phys
INVALID_PHYS_ADDR == -1
\* errno values; the functions return them negated
E2BIG == 7
ENOMEM == 12
\* the largest cell id that fits the VMID field, mmu_cell.c:60
MaxVmid == 255
\* width of the VMID field of VTTBR_EL2 (bits 55:48)
VmidValues == 256

\* a null pointer; the pages of mem_pool are numbered from 1
NULL == 0
NoEntry == [valid |-> FALSE]
\* no cell: the index after the last slot
NoCell == NumCells

Cells == 0 .. (NumCells - 1)
Cpus == 0 .. (NumCpus - 1)
PoolIndex == 1 .. PoolPages

\* cell ids handed to arch_mmu_cell_init by the core
CellIds == {0, 1, MaxVmid, MaxVmid + 1, 2 * VmidValues + 1}

\* guest-physical and host-physical addresses of the regions
\* configs/bananapi.c: RAM (0x40000000), IVSHMEM region (0x7be00000) and
\* hypervisor memory (0x7c000000), where mem_pool and the cells' comm pages live
GuestBase == 1073741824
HostBaseA == 1073741824
HostBaseB == 2078277632
HypervisorMemory == 2080374784
PoolPhysBase == HypervisorMemory + 256 * PAGE_SIZE
CommPhysBase == HypervisorMemory + 512 * PAGE_SIZE

GPages == {GuestBase + k * PAGE_SIZE : k \in 0 .. (MaxRegionPages - 1)}

\* every JAILHOUSE_MEM_ flag is set in one of these and clear in another
MemFlagSets ==
    { {"READ", "WRITE"},
      {"READ", "EXECUTE", "IO"},
      {"WRITE", "COMM_REGION"} }

\* struct jailhouse_memory, page-aligned as the cell configurations give it
Regions ==
    { r \in [phys_start : {HostBaseA, HostBaseB},
             virt_start : GPages,
             size : {n * PAGE_SIZE : n \in 1 .. MaxRegionPages},
             flags : MemFlagSets] :
        (r.virt_start + r.size - PAGE_SIZE) \in GPages }

VARIABLES
    mem_pool,   \* the pages of mem_pool in use (its bitmap)
    cell,       \* per cell slot: state, id, arch.mm.root_table, table pages, entries
    last,       \* the last operation: its arguments, its return value, and
                \* whether it undoes the operation before it
    cpu_cell,   \* per core: the cell it belongs to (this_cell())
    cpu_mode,   \* per core: "hyp", "init" (in arm_mmu_cpu_cell_init),
                \* "activated" (it has returned) or "guest"
    act_pc,     \* per core: position in arm_mmu_cpu_cell_init
    sysreg,     \* per core: VTTBR_EL2 and VTCR_EL2 as written and as in effect
    tlb,        \* per core: the cached stage-2 translations
    hw_log,     \* per core: the barrier and register operations of the
                \* activation in progress or just completed
    id_maps,    \* the two identity-map slots (static, shared by the cores)
    hv_table,   \* hv_paging_structs: hypervisor virtual page -> physical page
    idm_call,   \* the last call of set_id_map, arch_map_device or
                \* arch_unmap_device: arguments, result, slots and table before
    layout,     \* where the image puts the trampoline and the cores' stacks
    saved_vectors, \* the vector base of the Linux stub, "0" until fetched
    boot,       \* per core: position in switch_exception_level, its locals,
                \* its return value and the state of the transition
    hreg,       \* per core: the EL2 system registers and SCTLR_EL1
    boot_log,   \* per core: what switch_exception_level and
                \* arch_shutdown_mmu have done so far
    map_lock,   \* the spinlock of arch_shutdown_mmu: the core that holds it
    guest_regs, \* per core: the register context block saved at the entry
    ivshmem,    \* the shared-memory endpoints, their cells' core sets and
                \* interrupt bases (static configuration)
    irq_pending, \* per per_cpu slot: the interrupts irqchip_set_pending set
    bell_call,  \* the last doorbell write: its endpoint and the pending
                \* interrupts before it
    hv_create_fails \* the slots for which paging_create in create_id_maps
                \* returns an error (no page for a table)

s2vars == <<mem_pool, cell, last>>
cpuvars == <<cpu_cell, cpu_mode, act_pc, sysreg, tlb, hw_log>>
sdvars == <<map_lock, guest_regs>>
bellvars == <<ivshmem, irq_pending, bell_call>>
poolvars == <<hv_create_fails>>
hypvars == <<id_maps, hv_table, idm_call, layout, saved_vectors, boot, hreg, boot_log,
             sdvars, bellvars, poolvars>>
\* what no step of switch_exception_level touches
bootframe == <<mem_pool, cell, last, cpu_cell, cpu_mode, act_pc, sysreg, tlb, hw_log,
               idm_call, layout, sdvars, bellvars, poolvars>>
vars == <<mem_pool, cell, last, cpu_cell, cpu_mode, act_pc, sysreg, tlb, hw_log,
          id_maps, hv_table, idm_call, layout, saved_vectors, boot, hreg, boot_log,
          map_lock, guest_regs, ivshmem, irq_pending, bell_call,
          hv_create_fails>>

NoOp == [op |-> "none"]

(***************************************************************************)
(* mem_pool: page_alloc_aligned and page_free (jailhouse/paging.h).        *)
(***************************************************************************)
FreeCount(pool) == PoolPages - Cardinality(pool)

\* the aligned runs of num free pages
FreeRuns(pool, num) ==
    { s \in PoolIndex : /\ (s - 1) % num = 0
                        /\ \A k \in 0 .. (num - 1) :
                              (s + k) \in PoolIndex /\ (s + k) \notin pool }

\* the first page of the run allocated, or NULL
page_alloc_aligned(pool, num) ==
    IF FreeRuns(pool, num) = {} THEN NULL
    ELSE CHOOSE s \in FreeRuns(pool, num) : \A t \in FreeRuns(pool, num) : s <= t

PoolAfterAlloc(pool, page, num) ==
    IF page = NULL THEN pool ELSE pool \cup { page + k : k \in 0 .. (num - 1) }

page_free(pool, page, num) ==
    IF page = NULL THEN pool ELSE pool \ { page + k : k \in 0 .. (num - 1) }

\* paging_hvirt2phys of a pool page and of a cell's comm_page
paging_hvirt2phys_pool(page) == PoolPhysBase + (page - 1) * PAGE_SIZE
paging_hvirt2phys_comm(c) == CommPhysBase + c * PAGE_SIZE

(***************************************************************************)
(* Page tables: a map from page-aligned addresses to entries; the table    *)
(* pages below the root come from mem_pool.                                *)
(***************************************************************************)
PageOf(addr) == (addr \div PAGE_SIZE) * PAGE_SIZE
PageOffset(addr) == addr % PAGE_SIZE
PagesOfRange(virt, size) ==
    { PageOf(virt) + k * PAGE_SIZE :
        k \in 0 .. (((size + PAGE_SIZE - 1) \div PAGE_SIZE) - 1) }

EmptyTable == [g \in GPages |-> NoEntry]
TableIsEmpty(t) == \A g \in DOMAIN t : ~t[g].valid

\* paging_virt2phys: the entry must be valid and hold every flag asked for
paging_virt2phys(t, virt, flags) ==
    IF PageOf(virt) \in DOMAIN t
       /\ t[PageOf(virt)].valid
       /\ flags \subseteq t[PageOf(virt)].flags
    THEN t[PageOf(virt)].phys + PageOffset(virt)
    ELSE INVALID_PHYS_ADDR

\* paging_create on a table whose lower-level page is there
TableCreate(t, phys, size, virt, flags) ==
    [g \in DOMAIN t |->
        IF g \in PagesOfRange(virt, size)
        THEN [valid |-> TRUE, phys |-> PageOf(phys) + (g - PageOf(virt)),
              flags |-> flags]
        ELSE t[g]]

\* paging_destroy
TableDestroy(t, virt, size) ==
    [g \in DOMAIN t |-> IF g \in PagesOfRange(virt, size) THEN NoEntry ELSE t[g]]

(***************************************************************************)
(* Cells.  A slot is "free" until arch_mmu_cell_init succeeds on it.       *)
(***************************************************************************)
FreeCell == [state |-> "free", id |-> 0, root_table |-> NULL,
             leaf |-> NULL, mm |-> EmptyTable]

Ready(c) == cell[c].state = "ready"

\* the record kept of an operation; "undoes" says that the operation before
\* it was the init (for a destroy) or the map of the same region (for an
\* unmap) on the same cell, "prev_ret" is what that one returned, and
\* "pool_before" is mem_pool before the operation (before the pair when it
\* undoes)
Record(op, c, arg, ret) ==
    LET undoes ==
          /\ last.op # "none"
          /\ last.cell = c
          /\ \/ op = "destroy" /\ last.op = "init"
             \/ op = "unmap" /\ last.op = "map" /\ last.arg = arg
    IN  last' = [op |-> op, cell |-> c, arg |-> arg, ret |-> ret,
                 undoes |-> undoes,
                 prev_ret |-> IF undoes THEN last.ret ELSE 0,
                 pool_before |-> IF undoes THEN last.pool_before ELSE mem_pool]

IdTooLarge_OffByOne(id) == id > MaxVmid + 1

\* mmu_cell.c:60: the id does not fit the VMID field
IdTooLarge(id) == id > MaxVmid

\* int arch_mmu_cell_init(struct cell *cell)
arch_mmu_cell_init(c, id) ==
    /\ cell[c].state = "free"
    /\ \A d \in Cells : Ready(d) => cell[d].id # id
    /\ IF IdTooLarge(id)
       THEN /\ Record("init", c, id, -E2BIG)
            /\ UNCHANGED <<mem_pool, cell>>
       ELSE LET root == page_alloc_aligned(mem_pool, ARM_CELL_ROOT_PT_SZ) IN
            IF root = NULL
            THEN /\ Record("init", c, id, -ENOMEM)
                 /\ UNCHANGED <<mem_pool, cell>>
            ELSE /\ mem_pool' = PoolAfterAlloc(mem_pool, root, ARM_CELL_ROOT_PT_SZ)
                 /\ cell' = [cell EXCEPT ![c] =
                        [state |-> "ready", id |-> id,
                         root_table |-> root, leaf |-> NULL, mm |-> EmptyTable]]
                 /\ Record("init", c, id, 0)

DestroyPages_None == ARM_CELL_ROOT_PT_SZ - 1

\* the pages arch_mmu_cell_destroy gives back
DestroyPages == ARM_CELL_ROOT_PT_SZ

\* void arch_mmu_cell_destroy(struct cell *cell); its callers have unmapped
\* every region of the cell before
arch_mmu_cell_destroy(c) ==
    /\ Ready(c)
    /\ TableIsEmpty(cell[c].mm)
    /\ mem_pool' = page_free(mem_pool, cell[c].root_table, DestroyPages)
    /\ cell' = [cell EXCEPT ![c] = FreeCell]
    /\ Record("destroy", c, 0, 0)

MapPhysStart_Literal(c, mem) == mem.phys_start

\* mmu_cell.c:22,33-34: the address that backs the region
MapPhysStart(c, mem) ==
    IF "COMM_REGION" \in mem.flags THEN paging_hvirt2phys_comm(c)
    ELSE mem.phys_start

\* mmu_cell.c:23-38: the flags of the stage-2 entries
MapFlags(mem) ==
    {"VALID", "AF"}
    \cup (IF "READ" \in mem.flags THEN {"S2_RO"} ELSE {})
    \cup (IF "WRITE" \in mem.flags THEN {"S2_WO"} ELSE {})
    \cup (IF "IO" \in mem.flags THEN {"S2_DEVICE"} ELSE {"S2_NORMAL"})

UnmapStart_Phys(mem) == mem.phys_start

\* mmu_cell.c:47: the guest range arch_unmap_memory_region destroys
UnmapStart(mem) == mem.virt_start

\* paging_create on a cell's table: the page below the root is allocated
\* from mem_pool when the table holds no mapping yet
CellPagingCreate(c, phys, size, virt, flags) ==
    LET need == cell[c].leaf = NULL
        page == IF need THEN page_alloc_aligned(mem_pool, 1) ELSE cell[c].leaf
    IN  IF page = NULL
        THEN [ret |-> -ENOMEM, pool |-> mem_pool, cell |-> cell[c]]
        ELSE [ret |-> 0,
              pool |-> IF need THEN PoolAfterAlloc(mem_pool, page, 1) ELSE mem_pool,
              cell |-> [cell[c] EXCEPT
                          !.leaf = page,
                          !.mm = TableCreate(@, phys, size, virt, flags)]]

\* paging_destroy on a cell's table: an emptied table page returns to mem_pool
CellPagingDestroy(c, virt, size) ==
    LET mm == TableDestroy(cell[c].mm, virt, size)
        release == TableIsEmpty(mm) /\ cell[c].leaf # NULL
    IN  [ret |-> 0,
         pool |-> IF release THEN page_free(mem_pool, cell[c].leaf, 1) ELSE mem_pool,
         cell |-> [cell[c] EXCEPT !.mm = mm,
                                  !.leaf = IF release THEN NULL ELSE @]]

\* int arch_map_memory_region(struct cell *cell, const struct jailhouse_memory *mem)
arch_map_memory_region(c, mem) ==
    /\ Ready(c)
    /\ LET r == CellPagingCreate(c, MapPhysStart(c, mem), mem.size,
                                 mem.virt_start, MapFlags(mem))
       IN  /\ mem_pool' = r.pool
           /\ cell' = [cell EXCEPT ![c] = r.cell]
           /\ Record("map", c, mem, r.ret)

\* int arch_unmap_memory_region(struct cell *cell, const struct jailhouse_memory *mem)
arch_unmap_memory_region(c, mem) ==
    /\ Ready(c)
    /\ LET r == CellPagingDestroy(c, UnmapStart(mem), mem.size)
       IN  /\ mem_pool' = r.pool
           /\ cell' = [cell EXCEPT ![c] = r.cell]
           /\ Record("unmap", c, mem, r.ret)

\* unsigned long arch_paging_gphys2phys(cpu_data, gphys, flags), for a core of cell c
arch_paging_gphys2phys(c, gphys, flags) ==
    paging_virt2phys(cell[c].mm, gphys, flags)

S2Init ==
    /\ mem_pool = {}
    /\ cell = [c \in Cells |-> FreeCell]
    /\ last = NoOp

(***************************************************************************)
(* Cores: arm_mmu_cpu_cell_init and arm_cpu_tlb_flush.                     *)
(***************************************************************************)
\* asm/paging.h: the table base bits of a TTBR
TtbrMasked(addr) == PageOf(addr)

VmidField_Unshifted(id) == 0

\* mmu_cell.c:83: the VMID field (bits 55:48) of (u64)id << VTTBR_VMID_SHIFT
VmidField(id) == id % VmidValues

\* mmu_cell.c:80-84: the value written to VTTBR_EL2; pg_structs is the
\* arch.mm of this_cell()
VttbrValue(cpu) ==
    [vmid |-> VmidField(cell[cpu_cell[cpu]].id),
     baddr |-> TtbrMasked(paging_hvirt2phys_pool(cell[cpu_cell[cpu]].root_table))]

ActProgram_FlushBeforeIsb == <<"VTTBR", "VTCR", "TLBI", "DSB", "ISB">>

\* mmu_cell.c:86-96 and 105-106: the operations of arm_mmu_cpu_cell_init, the
\* last two those of arm_cpu_tlb_flush
ActProgram == <<"VTTBR", "VTCR", "ISB", "TLBI", "DSB">>

ActOp(cpu) ==
    IF cpu_mode[cpu] = "init" /\ act_pc[cpu] <= Len(ActProgram)
    THEN ActProgram[act_pc[cpu]] ELSE "none"

\* the step after this one: the function returns after its last operation
ActAdvance(cpu) ==
    /\ act_pc' = [act_pc EXCEPT ![cpu] = @ + 1]
    /\ cpu_mode' = [cpu_mode EXCEPT ![cpu] =
          IF act_pc[cpu] = Len(ActProgram) THEN "activated" ELSE "init"]

Log(cpu, what) == hw_log' = [hw_log EXCEPT ![cpu] = Append(@, what)]

NoReg == [vmid |-> 0, baddr |-> 0]

CpuInit ==
    /\ cpu_cell = [p \in Cpus |-> NoCell]
    /\ cpu_mode = [p \in Cpus |-> "hyp"]
    /\ act_pc = [p \in Cpus |-> 1]
    /\ sysreg = [p \in Cpus |-> [written |-> NoReg, vttbr |-> NoReg, vtcr |-> "reset"]]
    /\ tlb = [p \in Cpus |-> {}]
    /\ hw_log = [p \in Cpus |-> <<>>]

\* the core moves a CPU to another cell; the CPU is in the hypervisor then
AssignCpu(cpu, c) ==
    /\ Ready(c)
    /\ cpu_cell[cpu] # c
    /\ cpu_mode[cpu] # "init"
    /\ cpu_cell' = [cpu_cell EXCEPT ![cpu] = c]
    /\ cpu_mode' = [cpu_mode EXCEPT ![cpu] = "hyp"]
    /\ UNCHANGED <<act_pc, sysreg, tlb, hw_log>>

\* arm_mmu_cpu_cell_init(&this_cell()->arch.mm) is entered
ActivateEnter(cpu) ==
    /\ cpu_cell[cpu] # NoCell
    /\ cpu_mode[cpu] # "init"
    /\ cpu_mode' = [cpu_mode EXCEPT ![cpu] = "init"]
    /\ act_pc' = [act_pc EXCEPT ![cpu] = 1]
    /\ hw_log' = [hw_log EXCEPT ![cpu] = <<>>]
    /\ UNCHANGED <<cpu_cell, sysreg, tlb>>

\* arm_write_sysreg(VTTBR_EL2, vttbr)
WriteVttbr(cpu) ==
    /\ ActOp(cpu) = "VTTBR"
    /\ sysreg' = [sysreg EXCEPT ![cpu].written = VttbrValue(cpu)]
    /\ Log(cpu, "VTTBR") /\ ActAdvance(cpu)
    /\ UNCHANGED <<cpu_cell, tlb>>

\* arm_write_sysreg(VTCR_EL2, VTCR_CELL)
WriteVtcr(cpu) ==
    /\ ActOp(cpu) = "VTCR"
    /\ sysreg' = [sysreg EXCEPT ![cpu].vtcr = "VTCR_CELL"]
    /\ Log(cpu, "VTCR") /\ ActAdvance(cpu)
    /\ UNCHANGED <<cpu_cell, tlb>>

\* a written system register may take effect before the next isb
SysregTakesEffect(cpu) ==
    /\ sysreg[cpu].vttbr # sysreg[cpu].written
    /\ sysreg' = [sysreg EXCEPT ![cpu].vttbr = sysreg[cpu].written]
    /\ UNCHANGED <<cpu_cell, cpu_mode, act_pc, tlb, hw_log>>

\* isb(): the written system registers are in effect after it
Isb(cpu) ==
    /\ ActOp(cpu) = "ISB"
    /\ sysreg' = [sysreg EXCEPT ![cpu].vttbr = sysreg[cpu].written]
    /\ Log(cpu, "ISB") /\ ActAdvance(cpu)
    /\ UNCHANGED <<cpu_cell, tlb>>

\* tlb_flush_guest(): invalidates this core's stage-1 and stage-2 entries of
\* the VMID in effect
TlbFlushGuest(cpu) ==
    /\ ActOp(cpu) = "TLBI"
    /\ tlb' = [tlb EXCEPT ![cpu] = { e \in @ : e.vmid # sysreg[cpu].vttbr.vmid }]
    /\ Log(cpu, "TLBI") /\ ActAdvance(cpu)
    /\ UNCHANGED <<cpu_cell, sysreg>>

\* dsb(nsh)
Dsb(cpu) ==
    /\ ActOp(cpu) = "DSB"
    /\ Log(cpu, "DSB") /\ ActAdvance(cpu)
    /\ UNCHANGED <<cpu_cell, sysreg, tlb>>

\* the exception return to the cell
Eret(cpu) ==
    /\ cpu_mode[cpu] = "activated"
    /\ cpu_mode' = [cpu_mode EXCEPT ![cpu] = "guest"]
    /\ UNCHANGED <<cpu_cell, act_pc, sysreg, tlb, hw_log>>

\* the translations of this core's TLB that match the VMID in effect
Observable(cpu) == { e \in tlb[cpu] : e.vmid = sysreg[cpu].vttbr.vmid }

\* the guest accesses a page: the walk of the table VTTBR_EL2 points to is
\* cached under the VMID in effect; "owner" is the cell whose table was walked
GuestAccess(cpu, g) ==
    /\ cpu_mode[cpu] = "guest"
    /\ Cardinality(tlb[cpu]) < TlbEntries
    /\ \A e \in Observable(cpu) : e.ga # g
    /\ \E d \in Cells :
          /\ Ready(d)
          /\ paging_hvirt2phys_pool(cell[d].root_table) = sysreg[cpu].vttbr.baddr
          /\ cell[d].mm[g].valid
          /\ tlb' = [tlb EXCEPT ![cpu] = @ \cup
                {[vmid |-> sysreg[cpu].vttbr.vmid, ga |-> g,
                  pa |-> cell[d].mm[g].phys, owner |-> d]}]
    /\ UNCHANGED <<cpu_cell, cpu_mode, act_pc, sysreg, hw_log>>

\* the TLB drops a translation
TlbEvict(cpu) ==
    /\ \E e \in tlb[cpu] : tlb' = [tlb EXCEPT ![cpu] = @ \ {e}]
    /\ UNCHANGED <<cpu_cell, cpu_mode, act_pc, sysreg, hw_log>>

(***************************************************************************)
(* mmu_hyp.c.  unsigned long is a 32-bit word; a word is held as its page  *)
(* number and its offset in the page, so that sums wrap as they do in C.   *)
(***************************************************************************)
\* bits of an unsigned long and of the offset in a page (ARMv7)
WordBits == 32
PageShift == 12
WordPages == 2^(WordBits - PageShift)

Word(pg, off) == [pg |-> pg, off |-> off]

\* a + b and a - 1, modulo 2^32
WordAdd(a, b) ==
    [pg |-> (a.pg + b.pg + ((a.off + b.off) \div PAGE_SIZE)) % WordPages,
     off |-> (a.off + b.off) % PAGE_SIZE]
WordDec(a) ==
    IF a.off > 0 THEN [pg |-> a.pg, off |-> a.off - 1]
    ELSE [pg |-> (a.pg + WordPages - 1) % WordPages, off |-> PAGE_SIZE - 1]

\* a & PAGE_MASK, as the number of the page
PageMasked(a) == a.pg

\* ARRAY_SIZE(id_maps), mmu_hyp.c:30
IdMapSlots == 2

ZeroSlot == [addr |-> Word(0, 0), flags |-> "0", conflict |-> FALSE]

\* mmu_hyp.c:43: the first and the last byte of the range are in one page
SamePage(address, size) ==
    PageMasked(address) = PageMasked(WordDec(WordAdd(address, size)))

\* static int set_id_map(int i, unsigned long address, unsigned long size):
\* the value returned and the slots after the call; a negative i compares as
\* a large unsigned value
set_id_map(maps, i, address, size) ==
    IF i < 0 \/ i >= IdMapSlots
    THEN [ret |-> -ENOMEM, maps |-> maps]
    ELSE IF ~SamePage(address, size)
    THEN [ret |-> -E2BIG, maps |-> maps]
    ELSE [ret |-> 0,
          maps |-> [maps EXCEPT ![i] =
                      [addr |-> address, flags |-> "PAGE_DEFAULT_FLAGS",
                       conflict |-> FALSE]]]

(***************************************************************************)
(* switch_exception_level.                                                 *)
(***************************************************************************)
BootCpus == 0 .. (NumBootCpus - 1)

\* the pages the transition touches: the physical pages of the trampoline
\* and of the stacks, in hypervisor memory, and the page of JAILHOUSE_BASE
HvPhysPage == HypervisorMemory \div PAGE_SIZE
TrampPage == HvPhysPage + 16
StackPage(p) == HvPhysPage + 32 + p
JailhouseBasePage == 15 * (2^16)
HvPages == {TrampPage, TrampPage + 1, JailhouseBasePage}
             \cup {StackPage(p) : p \in BootCpus}

BaseOnlyTable ==
    [g \in HvPages |-> IF g = JailhouseBasePage
                       THEN [valid |-> TRUE, phys |-> HvPhysPage]
                       ELSE NoEntry]

\* paging_virt2phys, paging_create and paging_destroy of one page of
\* hv_paging_structs; a page outside the table's pages has no translation
HvVirt2Phys(t, pg) ==
    IF pg \in DOMAIN t /\ t[pg].valid THEN t[pg].phys ELSE INVALID_PHYS_ADDR
HvCreate(t, phys, virt) ==
    [g \in DOMAIN t |-> IF g = virt THEN [valid |-> TRUE, phys |-> phys] ELSE t[g]]
HvDestroy(t, virt) ==
    [g \in DOMAIN t |-> IF g = virt THEN NoEntry ELSE t[g]]

\* the vector bases: of the Linux stub, bootstrap_vectors and hyp_vectors
StubVectors == "linux_stub"
BootstrapVectors == "bootstrap_vectors"
HypVectors == "hyp_vectors"

ResetRegs ==
    [hvbar |-> StubVectors, sctlr_el2 |-> {}, sctlr_el1 |-> {"C", "I"},
     ttbr0 |-> "0", tcr |-> "0", hmair |-> "0", el |-> "EL1"]

\* entry is what the core found when it called switch_exception_level
IdleBoot == [pc |-> "idle", state |-> "HOST_VIRTUAL", ret |-> 0, i |-> 0,
             conflict |-> FALSE, arg |-> Word(0, 0), base_phys |-> 0,
             entry |-> NoOp, resumed |-> NoOp]

\* no core holds map_lock: the index after the last core
NoHolder == NumBootCpus

\* the context block of a core, guest_regs(cpu_data)
ContextOf(p) == [block |-> "registers", cpu |-> p]

TrampolineSize_Bytes(l) == l.tramp_bytes

\* mmu_hyp.c:254: &trampoline_end - &trampoline_start, a difference of
\* pointers to unsigned long: the number of words between the two symbols
TrampolineSize(l) == l.tramp_bytes \div (WordBits \div 8)

AsWord(n) == Word(n \div PAGE_SIZE, n % PAGE_SIZE)

At(p, pc) == boot[p].pc = pc
Goto(p, pc) == boot' = [boot EXCEPT ![p].pc = pc]
Did(p, what) == boot_log' = [boot_log EXCEPT ![p] = Append(@, what)]

\* switch_exception_level(cpu_data) is called; mmu_hyp.c:249-262
BootEnter(p) ==
    /\ At(p, "idle")
    /\ boot' = [boot EXCEPT ![p].pc = "vectors",
                            ![p].base_phys = HvVirt2Phys(hv_table, JailhouseBasePage),
                            ![p].entry = [id_maps |-> id_maps, hv_table |-> hv_table,
                                          hreg |-> hreg[p],
                                          regs |-> guest_regs[p]]]
    /\ UNCHANGED <<bootframe, id_maps, hv_table, saved_vectors, hreg,
                   boot_log>>

\* mmu_hyp.c:269: if (saved_vectors == 0)
BootTestVectors(p) ==
    /\ At(p, "vectors")
    /\ Goto(p, IF saved_vectors = "0" THEN "hvc" ELSE "set0")
    /\ UNCHANGED <<bootframe, id_maps, hv_table, saved_vectors, hreg,
                   boot_log>>

\* mmu_hyp.c:270: saved_vectors = hvc(-1)
BootFetchVectors(p) ==
    /\ At(p, "hvc")
    /\ saved_vectors' = hreg[p].hvbar
    /\ Did(p, "hvc_query")
    /\ Goto(p, "set0")
    /\ UNCHANGED <<bootframe, id_maps, hv_table, hreg>>

\* mmu_hyp.c:284-285: set_id_map(0, trampoline_phys, trampoline_size)
BootSetIdMap0(p) ==
    /\ At(p, "set0")
    /\ LET r == set_id_map(id_maps, 0, layout.tramp, AsWord(TrampolineSize(layout)))
       IN  /\ id_maps' = r.maps
           /\ boot' = [boot EXCEPT ![p].pc = IF r.ret # 0 THEN "returned" ELSE "set1",
                                   ![p].ret = IF r.ret # 0 THEN -E2BIG ELSE 0]
    /\ Did(p, "set_id_map")
    /\ UNCHANGED <<bootframe, hv_table, saved_vectors, hreg>>

\* mmu_hyp.c:286-287: set_id_map(1, stack_phys, PAGE_SIZE), up to its first
\* store, id_maps[1].addr = address (mmu_hyp.c:48).  The slots are shared by
\* the cores and written without a lock, so the three stores of set_id_map
\* are steps of their own for slot 1, whose address differs from core to
\* core; into slot 0 every core stores the same three values.
BootSetIdMap1(p) ==
    /\ At(p, "set1")
    /\ LET r == set_id_map(id_maps, 1, layout.stack[p], AsWord(PAGE_SIZE))
       IN  /\ id_maps' = IF r.ret # 0 THEN id_maps
                         ELSE [id_maps EXCEPT ![1].addr = r.maps[1].addr]
           /\ boot' = [boot EXCEPT
                  ![p].pc = IF r.ret # 0 THEN "returned" ELSE "set1_conflict",
                  ![p].ret = IF r.ret # 0 THEN -E2BIG ELSE 0]
    /\ Did(p, "set_id_map")
    /\ UNCHANGED <<bootframe, hv_table, saved_vectors, hreg>>

\* mmu_hyp.c:49: id_maps[1].conflict = false
BootSetIdMap1Conflict(p) ==
    /\ At(p, "set1_conflict")
    /\ id_maps' = [id_maps EXCEPT ![1].conflict = FALSE]
    /\ Goto(p, "set1_flags")
    /\ UNCHANGED <<bootframe, hv_table, saved_vectors, hreg, boot_log>>

\* mmu_hyp.c:50: id_maps[1].flags = PAGE_DEFAULT_FLAGS; set_id_map returns 0
BootSetIdMap1Flags(p) ==
    /\ At(p, "set1_flags")
    /\ id_maps' = [id_maps EXCEPT ![1].flags = "PAGE_DEFAULT_FLAGS"]
    /\ boot' = [boot EXCEPT ![p].pc = "create", ![p].i = 0]
    /\ UNCHANGED <<bootframe, hv_table, saved_vectors, hreg, boot_log>>

BootAfterCreate_Switch == "switch"

\* what follows create_id_maps, mmu_hyp.c:288-295: the clean of the data
\* caches
BootAfterCreate == "dflush"

\* a round of the loop of create_id_maps, mmu_hyp.c:60-76, reads and writes
\* the shared slots and the shared table without a lock: the lookup, the
\* paging_create and the store of conflict are steps of their own.
\* mmu_hyp.c:61-63: conflict = (paging_virt2phys(&hv_paging_structs,
\* id_maps[i].addr, ...) != INVALID_PHYS_ADDR), a local of the core
BootCreateIdMap(p) ==
    /\ At(p, "create")
    /\ LET i == boot[p].i
           pg == PageMasked(id_maps[i].addr)
           conflict == HvVirt2Phys(hv_table, pg) # INVALID_PHYS_ADDR
       IN  boot' = [boot EXCEPT
                  ![p].conflict = conflict,
                  ![p].pc = IF conflict THEN "create_store" ELSE "create_load"]
    /\ UNCHANGED <<bootframe, id_maps, hv_table, saved_vectors, hreg, boot_log>>

\* mmu_hyp.c:70-73: paging_create(&hv_paging_structs, id_maps[i].addr,
\* PAGE_SIZE, id_maps[i].addr, ...): the slot's address is read once for the
\* physical and once for the virtual argument, in an order the compiler
\* chooses, and set_id_map of another core may store between the two reads.
\* The first of the two reads:
BootCreateLoad(p) ==
    /\ At(p, "create_load")
    /\ boot' = [boot EXCEPT ![p].arg = id_maps[boot[p].i].addr,
                            ![p].pc = "create_map"]
    /\ UNCHANGED <<bootframe, id_maps, hv_table, saved_vectors, hreg, boot_log>>

\* the second read and the call: either of the two values is the physical
\* address, the other the virtual one.  The result of paging_create is not
\* looked at: when it fails the table is as before
BootCreateMap(p) ==
    /\ At(p, "create_map")
    /\ LET i == boot[p].i
           first == PageMasked(boot[p].arg)
           second == PageMasked(id_maps[i].addr)
       IN  \E a \in {<<first, second>>, <<second, first>>} :
               hv_table' = IF i \in hv_create_fails THEN hv_table
                           ELSE HvCreate(hv_table, a[1], a[2])
    /\ Did(p, "paging_create")
    /\ boot' = [boot EXCEPT ![p].arg = Word(0, 0), ![p].pc = "create_store"]
    /\ UNCHANGED <<bootframe, id_maps, saved_vectors, hreg>>

\* mmu_hyp.c:75: id_maps[i].conflict = conflict, and the next round
BootCreateStore(p) ==
    /\ At(p, "create_store")
    /\ LET i == boot[p].i
       IN  /\ id_maps' = [id_maps EXCEPT ![i].conflict = boot[p].conflict]
           /\ boot' = [boot EXCEPT
                  ![p].i = i + 1,
                  ![p].pc = IF i + 1 = IdMapSlots THEN BootAfterCreate ELSE "create",
                  ![p].state = IF i + 1 = IdMapSlots THEN "ID_MAPPED" ELSE @]
    /\ UNCHANGED <<bootframe, hv_table, saved_vectors, hreg, boot_log>>

\* mmu_hyp.c:295: arch_cpu_dcaches_flush(CACHES_CLEAN)
BootCleanDcache(p) ==
    /\ At(p, "dflush")
    /\ Did(p, "dcache_clean")
    /\ Goto(p, "switch")
    /\ UNCHANGED <<bootframe, id_maps, hv_table, saved_vectors, hreg>>

\* mmu_hyp.c:297: cpu_switch_el2: the hvc installs bootstrap_vectors and the
\* core goes on at EL2 on physical addresses
BootSwitchEl2(p) ==
    /\ At(p, "switch")
    /\ hreg' = [hreg EXCEPT ![p].hvbar = BootstrapVectors, ![p].el = "EL2"]
    /\ Did(p, "cpu_switch_el2")
    /\ boot' = [boot EXCEPT ![p].pc = "setup", ![p].state = "HOST_PHYSICAL_EL2"]
    /\ UNCHANGED <<bootframe, id_maps, hv_table, saved_vectors>>

\* the trampoline page and the stack page of core p translate to themselves
\* in hv_paging_structs: what a core needs to go on once SCTLR_EL2.M is set
\* while it still runs on physical addresses
IdMapped(p) ==
    /\ HvVirt2Phys(hv_table, PageMasked(layout.tramp)) = PageMasked(layout.tramp)
    /\ HvVirt2Phys(hv_table, PageMasked(layout.stack[p])) = PageMasked(layout.stack[p])

\* mmu_hyp.c:304, 137-181: setup_mmu_el2 up to the isb after the write of
\* SCTLR_EL2.  With the MMU on, the next instruction is fetched through the
\* table: without the identity mappings the core takes an abort it does not
\* come back from.  When the MMU is on at the call the function executes
\* 'return' (mmu_hyp.c:149-150); it is declared naked, so the compiler emits
\* no return sequence for it: the core gets back to switch_exception_level
\* or runs on behind the function and is lost.
BootSetupMmu(p) ==
    /\ At(p, "setup")
    /\ hreg' = IF "M" \in hreg[p].sctlr_el2 THEN hreg
               ELSE [hreg EXCEPT
                       ![p].hmair = "DEFAULT_HMAIR",
                       ![p].ttbr0 = "hv_paging_structs.root_table",
                       ![p].tcr = "tcr",
                       ![p].sctlr_el2 = @ \cup {"M"}
                                          \cup (hreg[p].sctlr_el1 \cap {"I", "C"})]
    /\ Did(p, "setup_mmu_el2")
    /\ IF "M" \in hreg[p].sctlr_el2
       THEN \/ boot' = [boot EXCEPT ![p].pc = "check", ![p].state = "HYP_VIRTUAL"]
            \/ boot' = [boot EXCEPT ![p].pc = "faulted", ![p].state = "FAULTED"]
       ELSE IF IdMapped(p)
       THEN boot' = [boot EXCEPT ![p].pc = "phys2virt"]
       ELSE boot' = [boot EXCEPT ![p].pc = "faulted", ![p].state = "FAULTED"]
    /\ UNCHANGED <<bootframe, id_maps, hv_table, saved_vectors>>

\* mmu_hyp.c:187: cpu_switch_phys2virt, the epilogue of setup_mmu_el2: it
\* pops from the stack and jumps to the virtual return address
BootPhys2Virt(p) ==
    /\ At(p, "phys2virt")
    /\ boot' = IF IdMapped(p)
               THEN [boot EXCEPT ![p].pc = "check", ![p].state = "HYP_VIRTUAL"]
               ELSE [boot EXCEPT ![p].pc = "faulted", ![p].state = "FAULTED"]
    /\ UNCHANGED <<bootframe, id_maps, hv_table, saved_vectors, hreg, boot_log>>

MmuMapBad_Never(par, phys_addr) == FALSE

\* mmu_hyp.c:229: the translation faulted (PAR_F_BIT) or gives another
\* address than expected
MmuMapBad(par, phys_addr) == par = INVALID_PHYS_ADDR \/ par # phys_addr

\* mmu_hyp.c:307: check_mmu_map(JAILHOUSE_BASE, jailhouse_base_phys), which
\* never returns when the translation faults or differs
BootCheckMmuMap(p) ==
    /\ At(p, "check")
    /\ LET par == HvVirt2Phys(hv_table, JailhouseBasePage)
           bad == MmuMapBad(par, boot[p].base_phys)
       IN  boot' = [boot EXCEPT ![p].pc = IF bad THEN "halted" ELSE "hvbar",
                                ![p].state = IF bad THEN "HALTED" ELSE @]
    /\ Did(p, "check_mmu_map")
    /\ UNCHANGED <<bootframe, id_maps, hv_table, saved_vectors, hreg>>

\* mmu_hyp.c:310: arm_write_sysreg(HVBAR, &hyp_vectors)
BootInstallVectors(p) ==
    /\ At(p, "hvbar")
    /\ hreg' = [hreg EXCEPT ![p].hvbar = HypVectors]
    /\ Did(p, "hvbar")
    /\ boot' = [boot EXCEPT ![p].pc = "destroy", ![p].i = 0]
    /\ UNCHANGED <<bootframe, id_maps, hv_table, saved_vectors>>

KeepsMapping_Never(slot) == FALSE

\* if (id_maps[i].conflict), mmu_hyp.c:84: the mapping was there before and
\* is left alone
KeepsMapping(slot) == slot.conflict

\* a round of the loop of destroy_id_maps, mmu_hyp.c:83-90: the test of
\* id_maps[i].conflict (mmu_hyp.c:84) and the paging_destroy are steps of
\* their own, the slots being shared and not locked; after the last round
\* switch_exception_level returns 0
BootDestroyIdMap(p) ==
    /\ At(p, "destroy")
    /\ LET i == boot[p].i
       IN  boot' = IF KeepsMapping(id_maps[i])
                   THEN [boot EXCEPT
                           ![p].i = i + 1,
                           ![p].pc = IF i + 1 = IdMapSlots THEN "returned"
                                     ELSE "destroy",
                           ![p].ret = 0]
                   ELSE [boot EXCEPT ![p].pc = "destroy_unmap"]
    /\ UNCHANGED <<bootframe, id_maps, hv_table, saved_vectors, hreg, boot_log>>

\* mmu_hyp.c:87-88: paging_destroy of the page of id_maps[i].addr, and the
\* next round
BootDestroyUnmap(p) ==
    /\ At(p, "destroy_unmap")
    /\ LET i == boot[p].i
           pg == PageMasked(id_maps[i].addr)
       IN  /\ hv_table' = HvDestroy(hv_table, pg)
           /\ boot' = [boot EXCEPT
                  ![p].i = i + 1,
                  ![p].pc = IF i + 1 = IdMapSlots THEN "returned" ELSE "destroy",
                  ![p].ret = 0]
    /\ Did(p, "paging_destroy")
    /\ UNCHANGED <<bootframe, id_maps, saved_vectors, hreg>>

(***************************************************************************)
(* arch_shutdown_mmu and shutdown_el2.                                     *)
(***************************************************************************)
\* what no step of arch_shutdown_mmu touches
sdframe == <<mem_pool, cell, last, cpu_cell, cpu_mode, act_pc, sysreg, tlb, hw_log,
             idm_call, layout, id_maps, saved_vectors, guest_regs, bellvars,
             poolvars>>

\* the positions of a core that is not inside switch_exception_level
OutOfBoot == {"returned", "halted", "faulted", "sd_lock", "sd_map_stack",
              "sd_map_tramp", "sd_unlock", "sd_dflush", "sd_sctlr", "sd_hmair",
              "sd_ttbr0", "sd_tcr", "sd_hvbar", "sd_vmreturn", "left"}

\* arch_shutdown_mmu(cpu_data) is called, mmu_hyp.c:318-331, on a core that
\* runs in hypervisor mode; the hypervisor is shut down only after every
\* core is through its initialisation
ShutdownEnter(p) ==
    /\ At(p, "returned")
    /\ boot[p].ret = 0
    /\ \A q \in BootCpus : boot[q].pc \in OutOfBoot
    /\ Goto(p, "sd_lock")
    /\ UNCHANGED <<sdframe, hv_table, hreg, boot_log, map_lock>>

SpinLockFree_Always == TRUE

\* spin_lock goes on only when no core holds the lock
SpinLockFree == map_lock = NoHolder

\* mmu_hyp.c:338: spin_lock(&map_lock)
ShutdownLock(p) ==
    /\ At(p, "sd_lock")
    /\ SpinLockFree
    /\ map_lock' = p
    /\ Did(p, "spin_lock")
    /\ Goto(p, "sd_map_stack")
    /\ UNCHANGED <<sdframe, hv_table, hreg>>

\* mmu_hyp.c:339-340: paging_create of the stack page onto itself
ShutdownMapStack(p) ==
    /\ At(p, "sd_map_stack")
    /\ hv_table' = HvCreate(hv_table, PageMasked(layout.stack[p]),
                            PageMasked(layout.stack[p]))
    /\ Did(p, "sd_map_stack")
    /\ Goto(p, "sd_map_tramp")
    /\ UNCHANGED <<sdframe, hreg, map_lock>>

\* mmu_hyp.c:341-343: paging_create of the trampoline page onto itself
ShutdownMapTramp(p) ==
    /\ At(p, "sd_map_tramp")
    /\ hv_table' = HvCreate(hv_table, PageMasked(layout.tramp), PageMasked(layout.tramp))
    /\ Did(p, "sd_map_tramp")
    /\ Goto(p, "sd_unlock")
    /\ UNCHANGED <<sdframe, hreg, map_lock>>

\* mmu_hyp.c:344: spin_unlock(&map_lock)
ShutdownUnlock(p) ==
    /\ At(p, "sd_unlock")
    /\ map_lock' = NoHolder
    /\ Did(p, "spin_unlock")
    /\ Goto(p, "sd_dflush")
    /\ UNCHANGED <<sdframe, hv_table, hreg>>

\* mmu_hyp.c:346: arch_cpu_dcaches_flush(CACHES_CLEAN)
ShutdownCleanDcache(p) ==
    /\ At(p, "sd_dflush")
    /\ Did(p, "sd_dcache_clean")
    /\ Goto(p, "sd_sctlr")
    /\ UNCHANGED <<sdframe, hv_table, hreg, map_lock>>

\* mmu_hyp.c:354, 202-205: shutdown_fun_phys is entered, on the trampoline's
\* physical address; it clears M, C and I of SCTLR_EL2
ShutdownDisableMmu(p) ==
    /\ At(p, "sd_sctlr")
    /\ hreg' = [hreg EXCEPT ![p].sctlr_el2 = @ \ {"M", "C", "I"}]
    /\ Did(p, "sd_sctlr")
    /\ boot' = [boot EXCEPT ![p].pc = "sd_hmair", ![p].state = "HOST_PHYSICAL_EL2"]
    /\ UNCHANGED <<sdframe, hv_table, map_lock>>

\* mmu_hyp.c:208-209: HMAIR0 and HMAIR1 are written 0
ShutdownZeroHmair(p) ==
    /\ At(p, "sd_hmair")
    /\ hreg' = [hreg EXCEPT ![p].hmair = "0"]
    /\ Did(p, "sd_hmair")
    /\ Goto(p, "sd_ttbr0")
    /\ UNCHANGED <<sdframe, hv_table, map_lock>>

\* mmu_hyp.c:210: TTBR0_EL2 is written 0
ShutdownZeroTtbr(p) ==
    /\ At(p, "sd_ttbr0")
    /\ hreg' = [hreg EXCEPT ![p].ttbr0 = "0"]
    /\ Did(p, "sd_ttbr0")
    /\ Goto(p, "sd_tcr")
    /\ UNCHANGED <<sdframe, hv_table, map_lock>>

\* mmu_hyp.c:211: TCR_EL2 is written 0
ShutdownZeroTcr(p) ==
    /\ At(p, "sd_tcr")
    /\ hreg' = [hreg EXCEPT ![p].tcr = "0"]
    /\ Did(p, "sd_tcr")
    /\ Goto(p, "sd_hvbar")
    /\ UNCHANGED <<sdframe, hv_table, map_lock>>

ShutdownVectors_Hyp == HypVectors

\* mmu_hyp.c:354: the second argument of shutdown_fun_phys
ShutdownVectors == saved_vectors

\* mmu_hyp.c:215: arm_write_sysreg(HVBAR, vectors)
ShutdownRestoreVectors(p) ==
    /\ At(p, "sd_hvbar")
    /\ hreg' = [hreg EXCEPT ![p].hvbar = ShutdownVectors]
    /\ Did(p, "sd_hvbar")
    /\ Goto(p, "sd_vmreturn")
    /\ UNCHANGED <<sdframe, hv_table, map_lock>>

ShutdownRegs_Other(p) == guest_regs[(p + 1) % NumBootCpus]

\* mmu_hyp.c:326-327: regs_phys, the context block of this core
ShutdownRegs(p) == guest_regs[p]

\* mmu_hyp.c:217: vmreturn(regs): the core goes on at EL1 with the context
\* of the block; arch_shutdown_mmu does not return
ShutdownVmReturn(p) ==
    /\ At(p, "sd_vmreturn")
    /\ hreg' = [hreg EXCEPT ![p].el = "EL1"]
    /\ Did(p, "vmreturn")
    /\ boot' = [boot EXCEPT ![p].pc = "left", ![p].state = "HOST_PHYSICAL_EL1",
                            ![p].resumed = ShutdownRegs(p)]
    /\ UNCHANGED <<sdframe, hv_table, map_lock>>

(***************************************************************************)
(* The doorbell of the shared-memory device, ivshmem.c.                    *)
(***************************************************************************)
Endpoints == 0 .. (NumEndpoints - 1)

\* cpu_set->max_cpu_id: the highest core number a cell's core set can hold
MaxCpuId == NumBootCpus - 1

\* the per_cpu slots irqchip_set_pending can be called on: one per core, and
\* per_cpu(max_cpu_id + 1), the memory behind the last core's
PerCpuSlots == 0 .. (MaxCpuId + 1)

\* for_each_cpu(first_cpu, set) break;  ivshmem.c:24-25: the lowest core of
\* the set; the loop of an empty set ends with first_cpu == max_cpu_id + 1
FirstCpu(set) ==
    IF set = {} THEN MaxCpuId + 1
    ELSE CHOOSE c \in set : \A d \in set : c <= d

\* u8 pin = remote->cspace[PCI_CFG_INT/4] >> 8, ivshmem.c:21: the second
\* byte of the configuration word (interrupt line in the first byte)
PinOf(cfg_int) == (cfg_int \div 256) % 256

\* the configuration words of the model: pin 1 with line 0, pin 2 with
\* line 11
CfgIntWords == {256, 523}

\* config->vpci_irq_base of a cell: 123 in the root cell (bananapi.c:50)
VpciIrqBase(c) == 123 + 32 * c

\* struct ivshmem_endpoint *remote = ive;//->remote;  ivshmem.c:19
DoorbellEndpoint(iv, e) == e

\* irqchip_set_pending(cpu_data, irq_id): the interrupt is pending on that
\* per_cpu
irqchip_set_pending(pending, slot, irq) ==
    [pending EXCEPT ![slot] = @ \cup {irq}]

\* arch_ivshmem_write_doorbell(ive), ivshmem.c:17-30
arch_ivshmem_write_doorbell(e) ==
    LET remote == DoorbellEndpoint(ivshmem, e)
        remote_cell == ivshmem.ep[remote].cell
        pin == PinOf(ivshmem.ep[remote].cfg_int)
        first_cpu == FirstCpu(ivshmem.cpu_set[remote_cell])
        spi_base == ivshmem.vpci_irq_base[remote_cell]
    IN  /\ irq_pending' = irqchip_set_pending(irq_pending, first_cpu,
                                              spi_base + pin - 1)
        /\ bell_call' = [op |-> "doorbell", ep |-> e, before |-> irq_pending]
        /\ UNCHANGED ivshmem

\* the two endpoints of one device are each other's remote
IvshmemWith(cells, words, owner) ==
    [ep |-> [e \in Endpoints |->
                [cell |-> cells[e], cfg_int |-> words[e],
                 remote |-> (e + 1) % NumEndpoints]],
     cpu_set |-> [c \in Cells |-> {p \in BootCpus : owner[p] = c}],
     vpci_irq_base |-> [c \in Cells |-> VpciIrqBase(c)]]

\* every core in the root cell, the endpoints in different cells
DefaultIvshmem ==
    IvshmemWith([e \in Endpoints |-> e % NumCells],
                [e \in Endpoints |-> 256],
                [p \in BootCpus |-> 0])

BellInitWith(iv) ==
    /\ ivshmem = iv
    /\ irq_pending = [s \in PerCpuSlots |-> {}]
    /\ bell_call = NoOp

BellInit == BellInitWith(DefaultIvshmem)

\* the image: a trampoline of 256 bytes at the start of a page, the stacks
\* page-aligned; only JAILHOUSE_BASE is mapped
DefaultLayout ==
    [tramp |-> Word(TrampPage, 0), tramp_bytes |-> 256,
     stack |-> [p \in BootCpus |-> Word(StackPage(p), 0)]]

\* the state at load with layout l, hv_paging_structs t and the registers r
\* on every core
HypInitRegs(l, t, r) ==
    /\ id_maps = [i \in 0 .. (IdMapSlots - 1) |-> ZeroSlot]
    /\ hv_table = t
    /\ idm_call = NoOp
    /\ layout = l
    /\ saved_vectors = "0"
    /\ boot = [p \in BootCpus |-> IdleBoot]
    /\ hreg = [p \in BootCpus |-> r]
    /\ boot_log = [p \in BootCpus |-> <<>>]
    /\ map_lock = NoHolder
    /\ guest_regs = [p \in BootCpus |-> ContextOf(p)]

HypInitWith(l, t) == HypInitRegs(l, t, ResetRegs)

HypInit == HypInitWith(DefaultLayout, BaseOnlyTable)

\* paging_create finds the pages it needs
PoolInit == hv_create_fails = {}

Init == S2Init /\ CpuInit /\ HypInit /\ BellInit /\ PoolInit

(***************************************************************************)
(* The stage-2 translation manager: cells and their regions.               *)
(***************************************************************************)
CellInit == \E c \in Cells, id \in CellIds :
    arch_mmu_cell_init(c, id) /\ UNCHANGED <<cpuvars, hypvars>>

\* its callers have moved the cell's CPUs to another cell before; the
\* translations cached from the cell's table are from then on no cell's
CellDestroy == \E c \in Cells :
    /\ \A p \in Cpus : cpu_cell[p] # c
    /\ arch_mmu_cell_destroy(c)
    /\ tlb' = [p \in Cpus |->
                 { IF e.owner = c THEN [e EXCEPT !.owner = NoCell] ELSE e : e \in tlb[p] }]
    /\ UNCHANGED <<cpu_cell, cpu_mode, act_pc, sysreg, hw_log, hypvars>>

MapRegion == \E c \in Cells, mem \in Regions :
    arch_map_memory_region(c, mem) /\ UNCHANGED <<cpuvars, hypvars>>

UnmapRegion == \E c \in Cells, mem \in Regions :
    arch_unmap_memory_region(c, mem) /\ UNCHANGED <<cpuvars, hypvars>>

S2Next ==
    \/ CellInit
    \/ CellDestroy
    \/ MapRegion
    \/ UnmapRegion

SpecS2 == Init /\ [][S2Next]_vars

(***************************************************************************)
(* Cores being activated for cells.                                        *)
(***************************************************************************)
\* the regions of the cells the cores run
ActRegions ==
    { r \in Regions : /\ r.virt_start = GuestBase
                      /\ r.size = PAGE_SIZE
                      /\ r.flags = {"READ", "WRITE"} }

ActCellInit == \E c \in Cells, id \in CellIds :
    arch_mmu_cell_init(c, id) /\ UNCHANGED <<cpuvars, hypvars>>

ActMapRegion == \E c \in Cells, mem \in ActRegions :
    arch_map_memory_region(c, mem) /\ UNCHANGED <<cpuvars, hypvars>>

ActUnmapRegion == \E c \in Cells, mem \in ActRegions :
    arch_unmap_memory_region(c, mem) /\ UNCHANGED <<cpuvars, hypvars>>

CpuAssign == \E p \in Cpus, c \in Cells : AssignCpu(p, c) /\ UNCHANGED <<s2vars, hypvars>>
CpuActivateEnter == \E p \in Cpus : ActivateEnter(p) /\ UNCHANGED <<s2vars, hypvars>>
CpuWriteVttbr == \E p \in Cpus : WriteVttbr(p) /\ UNCHANGED <<s2vars, hypvars>>
CpuWriteVtcr == \E p \in Cpus : WriteVtcr(p) /\ UNCHANGED <<s2vars, hypvars>>
CpuSysregTakesEffect == \E p \in Cpus : SysregTakesEffect(p) /\ UNCHANGED <<s2vars, hypvars>>
CpuIsb == \E p \in Cpus : Isb(p) /\ UNCHANGED <<s2vars, hypvars>>
CpuTlbFlushGuest == \E p \in Cpus : TlbFlushGuest(p) /\ UNCHANGED <<s2vars, hypvars>>
CpuDsb == \E p \in Cpus : Dsb(p) /\ UNCHANGED <<s2vars, hypvars>>
CpuEret == \E p \in Cpus : Eret(p) /\ UNCHANGED <<s2vars, hypvars>>
CpuGuestAccess == \E p \in Cpus, g \in GPages : GuestAccess(p, g) /\ UNCHANGED <<s2vars, hypvars>>
CpuTlbEvict == \E p \in Cpus : TlbEvict(p) /\ UNCHANGED <<s2vars, hypvars>>

ActNext ==
    \/ ActCellInit
    \/ CellDestroy
    \/ ActMapRegion
    \/ ActUnmapRegion
    \/ CpuAssign
    \/ CpuActivateEnter
    \/ CpuWriteVttbr
    \/ CpuWriteVtcr
    \/ CpuSysregTakesEffect
    \/ CpuIsb
    \/ CpuTlbFlushGuest
    \/ CpuDsb
    \/ CpuEret
    \/ CpuGuestAccess
    \/ CpuTlbEvict

SpecAct == Init /\ [][ActNext]_vars

(***************************************************************************)
(* set_id_map over the machine words.                                      *)
(***************************************************************************)
AddrSamples ==
    { Word(0, 0), Word(0, 1), Word(1, 0), Word(1, 2048), Word(1, PAGE_SIZE - 1),
      Word(WordPages - 1, 0), Word(WordPages - 1, PAGE_SIZE - 1) }

SizeSamples ==
    { Word(0, 0), Word(0, 1), Word(0, 2), Word(0, 2048), Word(0, 2049),
      Word(0, PAGE_SIZE - 1), Word(1, 0), Word(1, 1),
      Word(WordPages - 1, 3840), Word(WordPages - 1, PAGE_SIZE - 1) }

IndexSamples == {-1, 0, 1, IdMapSlots}

SetIdMap == \E i \in IndexSamples, a \in AddrSamples, sz \in SizeSamples :
    LET r == set_id_map(id_maps, i, a, sz) IN
    /\ id_maps' = r.maps
    /\ idm_call' = [op |-> "set_id_map", i |-> i, address |-> a, size |-> sz,
                    ret |-> r.ret, maps_before |-> id_maps,
                    table_before |-> hv_table]
    /\ UNCHANGED <<s2vars, cpuvars, hv_table, layout, saved_vectors, boot, hreg,
                   boot_log, sdvars, bellvars, poolvars>>

IdMapNext == SetIdMap

SpecIdMap == Init /\ [][IdMapNext]_vars

(***************************************************************************)
(* arch_map_device and arch_unmap_device.                                  *)
(***************************************************************************)
\* paging_create and paging_destroy of n pages of hv_paging_structs
HvCreateRange(t, phys, virt, n) ==
    [g \in DOMAIN t |-> IF g \in virt .. (virt + n - 1)
                        THEN [valid |-> TRUE, phys |-> phys + (g - virt)]
                        ELSE t[g]]
HvDestroyRange(t, virt, n) ==
    [g \in DOMAIN t |-> IF g \in virt .. (virt + n - 1) THEN NoEntry ELSE t[g]]

\* the ranges of pages of the model's table, and the physical pages a device
\* is at: those of the range itself or the pages from hypervisor memory on
DevRanges ==
    {r \in HvPages \X (1 .. MaxDevPages) :
        \A g \in r[1] .. (r[1] + r[2] - 1) : g \in HvPages}
DevPhys(virt) == {virt, HvPhysPage}

\* int arch_map_device(void *paddr, void *vaddr, unsigned long size),
\* mmu_hyp.c:359-365: the result of paging_create, taken without map_lock
arch_map_device(paddr, vaddr, n, ok) ==
    /\ hv_table' = IF ok THEN HvCreateRange(hv_table, paddr, vaddr, n) ELSE hv_table
    /\ idm_call' = [op |-> "arch_map_device", paddr |-> paddr, vaddr |-> vaddr,
                    pages |-> n, ret |-> IF ok THEN 0 ELSE -ENOMEM,
                    table_before |-> hv_table]

\* int arch_unmap_device(void *vaddr, unsigned long size), mmu_hyp.c:367-371
arch_unmap_device(vaddr, n) ==
    /\ hv_table' = HvDestroyRange(hv_table, vaddr, n)
    /\ idm_call' = [op |-> "arch_unmap_device", vaddr |-> vaddr, pages |-> n,
                    ret |-> 0, table_before |-> hv_table]

devframe == <<s2vars, cpuvars, id_maps, layout, saved_vectors, boot, hreg,
              boot_log, sdvars, bellvars, poolvars>>

MapDevice ==
    \E r \in DevRanges, ok \in BOOLEAN : \E paddr \in DevPhys(r[1]) :
        arch_map_device(paddr, r[1], r[2], ok) /\ UNCHANGED devframe

UnmapDevice ==
    \E r \in DevRanges :
        arch_unmap_device(r[1], r[2]) /\ UNCHANGED devframe

DevNext == MapDevice \/ UnmapDevice

SpecDev == Init /\ [][DevNext]_vars

\* the images and the tables a core may find: the trampoline at the start
\* of its page or three quarters into it, of 256, 2048 or 6144 bytes; each
\* stack page-aligned or half a page further
Layouts ==
    {[tramp |-> Word(TrampPage, o), tramp_bytes |-> n, stack |-> st] :
        o \in {0, 3 * (PAGE_SIZE \div 4)},
        n \in {PAGE_SIZE \div 16, PAGE_SIZE \div 2, 3 * (PAGE_SIZE \div 2)},
        st \in {f \in [BootCpus -> {Word(StackPage(q), o2) :
                                        q \in BootCpus, o2 \in {0, PAGE_SIZE \div 2}}] :
                    \A q \in BootCpus : f[q].pg = StackPage(q)}}

HvTables ==
    {BaseOnlyTable,
     HvCreate(BaseOnlyTable, TrampPage, TrampPage),
     HvDestroy(BaseOnlyTable, JailhouseBasePage)}

BootInit ==
    /\ S2Init
    /\ CpuInit
    /\ \E l \in Layouts, t \in HvTables : HypInitWith(l, t)
    /\ BellInit
    /\ PoolInit

BootNext ==
    \E p \in BootCpus :
        \/ BootEnter(p)
        \/ BootTestVectors(p)
        \/ BootFetchVectors(p)
        \/ BootSetIdMap0(p)
        \/ BootSetIdMap1(p)
        \/ BootSetIdMap1Conflict(p)
        \/ BootSetIdMap1Flags(p)
        \/ BootCreateIdMap(p)
        \/ BootCreateLoad(p)
        \/ BootCreateMap(p)
        \/ BootCreateStore(p)
        \/ BootCleanDcache(p)
        \/ BootSwitchEl2(p)
        \/ BootSetupMmu(p)
        \/ BootPhys2Virt(p)
        \/ BootCheckMmuMap(p)
        \/ BootInstallVectors(p)
        \/ BootDestroyIdMap(p)
        \/ BootDestroyUnmap(p)

SpecBoot == BootInit /\ [][BootNext]_vars

\* the steps of core p in switch_exception_level; a core that is not halted
\* goes on executing
BootStep(p) ==
    \/ BootEnter(p)
    \/ BootTestVectors(p)
    \/ BootFetchVectors(p)
    \/ BootSetIdMap0(p)
    \/ BootSetIdMap1(p)
    \/ BootSetIdMap1Conflict(p)
    \/ BootSetIdMap1Flags(p)
    \/ BootCreateIdMap(p)
    \/ BootCreateLoad(p)
    \/ BootCreateMap(p)
    \/ BootCreateStore(p)
    \/ BootCleanDcache(p)
    \/ BootSwitchEl2(p)
    \/ BootSetupMmu(p)
    \/ BootPhys2Virt(p)
    \/ BootCheckMmuMap(p)
    \/ BootInstallVectors(p)
    \/ BootDestroyIdMap(p)
    \/ BootDestroyUnmap(p)

SpecBootFair == SpecBoot /\ \A p \in BootCpus : WF_vars(BootStep(p))

\* switch_exception_level on one core alone, the others idle, under every
\* content of hv_paging_structs at the pages it touches and every outcome of
\* paging_create: beside the layouts above, an image whose stack is on the
\* trampoline's page
BootCore == 0

SamePageLayout ==
    [tramp |-> Word(TrampPage, 0), tramp_bytes |-> 256,
     stack |-> [p \in BootCpus |-> Word(TrampPage, 0)]]

SoloLayouts == Layouts \cup {SamePageLayout}

\* each of the trampoline page and the core's stack page is unmapped, mapped
\* to itself or mapped to another page; JAILHOUSE_BASE is mapped or not
PageContents(pg) ==
    {NoEntry, [valid |-> TRUE, phys |-> pg],
     [valid |-> TRUE, phys |-> HvPhysPage]}

SoloTables ==
    {[BaseOnlyTable EXCEPT ![TrampPage] = a, ![StackPage(BootCore)] = b,
                           ![JailhouseBasePage] = c] :
        a \in PageContents(TrampPage), b \in PageContents(StackPage(BootCore)),
        c \in {BaseOnlyTable[JailhouseBasePage], NoEntry}}

SoloInit ==
    /\ S2Init
    /\ CpuInit
    /\ \E l \in SoloLayouts, t \in SoloTables : HypInitWith(l, t)
    /\ BellInit
    /\ hv_create_fails \in SUBSET (0 .. (IdMapSlots - 1))

SoloNext == BootStep(BootCore)

SpecBootSolo == SoloInit /\ [][SoloNext]_vars

\* switch_exception_level on one core under every value of the M, C and I
\* bits of SCTLR_EL2 and of SCTLR_EL1 at the call
SctlrBits == {"M", "C", "I"}

SctlrInit ==
    /\ S2Init
    /\ CpuInit
    /\ \E el2 \in SUBSET SctlrBits, el1 \in SUBSET SctlrBits :
           HypInitRegs(DefaultLayout, BaseOnlyTable,
                       [ResetRegs EXCEPT !.sctlr_el2 = el2, !.sctlr_el1 = el1])
    /\ BellInit
    /\ PoolInit

SctlrNext == BootStep(BootCore)

SpecSctlr == SctlrInit /\ [][SctlrNext]_vars

\* a core's whole time in the hypervisor: switch_exception_level, then
\* arch_shutdown_mmu
LifeInit ==
    /\ S2Init
    /\ CpuInit
    /\ \E t \in HvTables : HypInitWith(DefaultLayout, t)
    /\ BellInit
    /\ PoolInit

ShutdownNext ==
    \E p \in BootCpus :
        \/ ShutdownEnter(p)
        \/ ShutdownLock(p)
        \/ ShutdownMapStack(p)
        \/ ShutdownMapTramp(p)
        \/ ShutdownUnlock(p)
        \/ ShutdownCleanDcache(p)
        \/ ShutdownDisableMmu(p)
        \/ ShutdownZeroHmair(p)
        \/ ShutdownZeroTtbr(p)
        \/ ShutdownZeroTcr(p)
        \/ ShutdownRestoreVectors(p)
        \/ ShutdownVmReturn(p)

LifeNext == BootNext \/ ShutdownNext

SpecLife == LifeInit /\ [][LifeNext]_vars

\* doorbell writes under every placement of the endpoints and the cores:
\* an endpoint belongs to a cell, a core to one cell or to none
BellSpecInit ==
    /\ S2Init
    /\ CpuInit
    /\ HypInit
    /\ \E cells \in [Endpoints -> Cells], words \in [Endpoints -> CfgIntWords],
          owner \in [BootCpus -> Cells \cup {NoCell}] :
            BellInitWith(IvshmemWith(cells, words, owner))
    /\ PoolInit

RingDoorbell ==
    \E e \in Endpoints :
        arch_ivshmem_write_doorbell(e) /\ UNCHANGED <<s2vars, cpuvars, id_maps,
            hv_table, idm_call, layout, saved_vectors, boot, hreg, boot_log,
            sdvars, poolvars>>

BellNext == RingDoorbell

SpecBell == BellSpecInit /\ [][BellNext]_vars

(***************************************************************************)
(* Properties of the stage-2 translation manager.                          *)
(***************************************************************************)
\* what the entry of a guest address allows: the stage-2 access bits, and
\* execution unless the entry is marked execute-never
S2Readable(c, gphys) == arch_paging_gphys2phys(c, gphys, {"S2_RO"}) # INVALID_PHYS_ADDR
S2Writable(c, gphys) == arch_paging_gphys2phys(c, gphys, {"S2_WO"}) # INVALID_PHYS_ADDR
S2Executable(c, gphys) ==
    /\ arch_paging_gphys2phys(c, gphys, {}) # INVALID_PHYS_ADDR
    /\ "S2_XN" \notin cell[c].mm[PageOf(gphys)].flags

\* offsets into a region: its first and last byte and both sides of every
\* page boundary in it
RegionOffsets(mem) ==
    { o \in UNION { {k * PAGE_SIZE, k * PAGE_SIZE + 1, (k + 1) * PAGE_SIZE - 1} :
                      k \in 0 .. (MaxRegionPages - 1) } : o < mem.size }

Mapped == last.op = "map" /\ last.ret = 0

\* C1: after a region is mapped into a cell's stage-2 table, a query for any
\* guest address of it reports phys_start + offset, readable iff the region
\* has READ, writable iff it has WRITE and executable iff it has EXECUTE.
\* (Stated for the regions backed by their own phys_start; the
\* communication region is C3's.)
C1_QueryReportsRegion ==
    (Mapped /\ "COMM_REGION" \notin last.arg.flags) =>
        \A o \in RegionOffsets(last.arg) :
            LET g == last.arg.virt_start + o IN
            /\ arch_paging_gphys2phys(last.cell, g, {}) = last.arg.phys_start + o
            /\ S2Readable(last.cell, g) <=> ("READ" \in last.arg.flags)
            /\ S2Writable(last.cell, g) <=> ("WRITE" \in last.arg.flags)
            /\ S2Executable(last.cell, g) <=> ("EXECUTE" \in last.arg.flags)

\* C2: arch_mmu_cell_init returns -E2BIG for every id above 255 and leaves
\* mem_pool as it was; for an id in 0..255 it returns 0 with a root table
\* newly taken from mem_pool, or -ENOMEM when mem_pool had no run of free
\* pages for it.
C2_CellInitResult ==
    (last.op = "init") =>
        LET c == last.cell
            root == { cell[c].root_table + k : k \in 0 .. (ARM_CELL_ROOT_PT_SZ - 1) }
        IN  IF last.arg > MaxVmid
            THEN /\ last.ret = -E2BIG
                 /\ mem_pool = last.pool_before
                 /\ cell[c] = FreeCell
            ELSE IF FreeRuns(last.pool_before, ARM_CELL_ROOT_PT_SZ) = {}
            THEN /\ last.ret = -ENOMEM
                 /\ mem_pool = last.pool_before
                 /\ cell[c] = FreeCell
            ELSE /\ last.ret = 0
                 /\ Ready(c) /\ cell[c].id = last.arg
                 /\ cell[c].root_table # NULL
                 /\ root \cap last.pool_before = {}
                 /\ mem_pool = last.pool_before \cup root
                 /\ TableIsEmpty(cell[c].mm)

C2_Witness ==
    /\ last.op = "init" /\ last.arg > MaxVmid /\ last.ret = -E2BIG
    /\ mem_pool # {}

\* C3: a region flagged COMM_REGION is backed by the physical address of the
\* cell's comm_page whatever its phys_start; any other region is backed by
\* its phys_start.
C3_CommRegionBacking ==
    Mapped =>
        \A o \in RegionOffsets(last.arg) :
            arch_paging_gphys2phys(last.cell, last.arg.virt_start + o, {}) =
                (IF "COMM_REGION" \in last.arg.flags
                 THEN paging_hvirt2phys_comm(last.cell)
                 ELSE last.arg.phys_start) + o

C3_Witness ==
    /\ Mapped /\ "COMM_REGION" \in last.arg.flags
    /\ last.arg.phys_start = HostBaseB
    /\ last.arg.size > PAGE_SIZE
    /\ last.cell # 0

\* C4: unmapping a region right after mapping it into the same cell leaves
\* no translation for any guest address of the region.
C4_MapUnmapLeavesNothing ==
    (last.op = "unmap" /\ last.undoes) =>
        \A o \in RegionOffsets(last.arg) :
            arch_paging_gphys2phys(last.cell, last.arg.virt_start + o, {})
                = INVALID_PHYS_ADDR

C4_Witness ==
    /\ last.op = "unmap" /\ last.undoes /\ last.prev_ret = 0
    /\ last.arg.size > PAGE_SIZE

\* C5: a successful arch_mmu_cell_init followed at once by
\* arch_mmu_cell_destroy of the same cell leaves as many free pages in
\* mem_pool as there were before the init.
C5_InitDestroyRoundTrip ==
    (last.op = "destroy" /\ last.undoes /\ last.prev_ret = 0) =>
        FreeCount(mem_pool) = FreeCount(last.pool_before)

C5_Witness ==
    /\ last.op = "destroy" /\ last.undoes /\ last.prev_ret = 0
    /\ last.pool_before # {}

(***************************************************************************)
(* Properties of arm_mmu_cpu_cell_init.                                    *)
(***************************************************************************)
ThisCell(p) == cell[cpu_cell[p]]

\* C6: once arm_mmu_cpu_cell_init has returned on a core, the VMID field in
\* effect is the id of the core's cell and the table base is that cell's
\* root table, and no translation cached before (under the previous cell's
\* id or any other) is observable; while the core then runs the cell, every
\* translation it observes was cached from that cell's table.
C6_VmidIsThisCell ==
    \A p \in Cpus :
        /\ cpu_mode[p] \in {"activated", "guest"} =>
               /\ sysreg[p].vttbr.vmid = ThisCell(p).id
               /\ sysreg[p].vttbr.baddr =
                      paging_hvirt2phys_pool(ThisCell(p).root_table)
               /\ \A e \in Observable(p) : e.owner = cpu_cell[p]
        /\ cpu_mode[p] = "activated" => Observable(p) = {}

\* activated for a second cell while the TLB still holds a translation of
\* the first
C6_Witness ==
    \E p \in Cpus :
        /\ cpu_mode[p] = "activated"
        /\ \E e \in tlb[p] : e.owner # cpu_cell[p] /\ e.vmid # ThisCell(p).id

Positions(log, what) == { i \in 1 .. Len(log) : log[i] = what }

\* C7: in arm_mmu_cpu_cell_init the write of VTTBR_EL2 comes first, then the
\* isb, then the TLB flush and then the dsb: the flush never runs before the
\* isb that follows the write.
C7_FlushAfterIsb ==
    \A p \in Cpus :
        LET log == hw_log[p] IN
        /\ \A i \in Positions(log, "ISB") : \E j \in Positions(log, "VTTBR") : j < i
        /\ \A i \in Positions(log, "TLBI") : \E j \in Positions(log, "ISB") : j < i
        /\ \A i \in Positions(log, "DSB") : \E j \in Positions(log, "TLBI") : j < i
        /\ cpu_mode[p] \in {"activated", "guest"} =>
               /\ log # <<>> /\ log[1] = "VTTBR"
               /\ \A w \in {"VTTBR", "ISB", "TLBI", "DSB"} :
                      Cardinality(Positions(log, w)) = 1

C7_Witness ==
    \E p \in Cpus :
        /\ cpu_mode[p] = "activated"
        /\ Positions(hw_log[p], "TLBI") # {}
        /\ tlb[p] # {}

(***************************************************************************)
(* Properties of set_id_map.                                               *)
(***************************************************************************)
\* a < b for words
WordLess(a, b) == a.pg < b.pg \/ (a.pg = b.pg /\ a.off < b.off)

\* the size bytes from address on are not all in the page of address: more
\* of them than the page has left
CrossesPage(address, size) ==
    WordLess(Word((PAGE_SIZE - address.off) \div PAGE_SIZE,
                  (PAGE_SIZE - address.off) % PAGE_SIZE), size)

\* C8: with a valid index, set_id_map returns -E2BIG, leaves the slots as
\* they were and creates no mapping for every (address, size) whose bytes
\* address .. address + size - 1 cross a page boundary, the ranges that wrap
\* around the end of the word included; it accepts a pair only when the whole
\* range is in one page.
C8_RejectsEveryCrossingRange ==
    (idm_call.op = "set_id_map" /\ idm_call.i \in 0 .. (IdMapSlots - 1)) =>
        /\ CrossesPage(idm_call.address, idm_call.size) =>
               /\ idm_call.ret = -E2BIG
               /\ id_maps = idm_call.maps_before
               /\ hv_table = idm_call.table_before
        /\ idm_call.ret = 0 => ~CrossesPage(idm_call.address, idm_call.size)

(***************************************************************************)
(* Properties of switch_exception_level.                                   *)
(***************************************************************************)
\* the trampoline, all its bytes, and the stack page of core p are each in
\* one page
TrampolineFits == ~CrossesPage(layout.tramp, AsWord(TrampolineSize_Bytes(layout)))
StackFits(p) == ~CrossesPage(layout.stack[p], AsWord(PAGE_SIZE))

\* the positions after both slots have passed the test of set_id_map
PastReserve == {"set1_conflict", "set1_flags", "create", "create_load", "create_map",
                "create_store", "dflush", "switch", "setup", "phys2virt", "check",
                "hvbar", "destroy", "destroy_unmap", "halted", "faulted"}

\* C9: switch_exception_level returns -E2BIG whenever the bytes from
\* trampoline_start to trampoline_end or the core's stack page are not in one
\* page, and it goes on towards the switch to EL2 only when each of the two
\* is in one page.
C9_RejectsRegionsOverOnePage ==
    \A p \in BootCpus :
        LET fits == TrampolineFits /\ StackFits(p)
            past == \/ boot[p].pc \in PastReserve
                    \/ boot[p].pc = "returned" /\ boot[p].ret = 0
        IN  /\ past => fits
            /\ (boot[p].pc = "returned" /\ ~fits) => boot[p].ret = -E2BIG

\* C10: when switch_exception_level returns -E2BIG, with no other core in
\* the function, hv_paging_structs, id_maps and the core's registers are as
\* they were at the call, no identity mapping was created, no cache was
\* cleaned, the core did not switch to EL2 and is still in HOST_VIRTUAL.
C10_ErrorLeavesNoTrace ==
    \A p \in BootCpus :
        (/\ boot[p].pc = "returned"
         /\ boot[p].ret = -E2BIG
         /\ \A q \in BootCpus \ {p} : boot[q].pc = "idle") =>
            /\ hv_table = boot[p].entry.hv_table
            /\ hreg[p] = boot[p].entry.hreg
            /\ \A k \in 1 .. Len(boot_log[p]) :
                   boot_log[p][k] \notin {"paging_create", "dcache_clean",
                                          "cpu_switch_el2"}
            /\ boot[p].state = "HOST_VIRTUAL"
            /\ id_maps = boot[p].entry.id_maps

(***************************************************************************)
(* Properties of arch_shutdown_mmu after switch_exception_level.           *)
(***************************************************************************)
LogHas(p, what) == \E k \in 1 .. Len(boot_log[p]) : boot_log[p][k] = what

\* C11: a core that went through switch_exception_level and then through
\* arch_shutdown_mmu has in HVBAR the value it had before the entry, and
\* goes on with the register context block that was saved at the entry; this
\* holds for every core, also one that was not the first to enter.
C11_EnterLeaveRestores ==
    \A p \in BootCpus :
        boot[p].pc = "left" =>
            /\ hreg[p].hvbar = boot[p].entry.hreg.hvbar
            /\ boot[p].resumed = boot[p].entry.regs

\* a core that did not fetch the vectors itself has left
C11_Witness ==
    \E p \in BootCpus :
        /\ boot[p].pc = "left"
        /\ ~LogHas(p, "hvc_query")
        /\ hreg[p].hvbar = StubVectors

(***************************************************************************)
(* Properties of switch_exception_level on several cores.                  *)
(***************************************************************************)
\* the cores that have executed hvc(-1)
Fetchers == {p \in BootCpus : LogHas(p, "hvc_query")}

\* C12: over all calls of switch_exception_level on all cores, one caller
\* only, the first, executes hvc(-1) and stores its result in saved_vectors;
\* the callers after it find the value stored, which is the one first written.
C12_VectorsFetchedOnce ==
    /\ Cardinality(Fetchers) <= 1
    /\ saved_vectors \in {"0", StubVectors}
    /\ \A p \in BootCpus : (boot[p].pc = "hvc") => Fetchers = {}

\* the positions of a core between cpu_switch_el2 and its return to virtual
\* addresses
OnPhysical == {"setup", "phys2virt"}

\* C13: with several cores in switch_exception_level at once, in every
\* interleaving, what a core is about to map in create_id_maps is the
\* trampoline and its own stack, and from its switch to EL2 to its return to
\* virtual addresses both its trampoline page and its own stack page are
\* identity-mapped in hv_paging_structs.
C13_EachCoreHasItsIdMaps ==
    \A p \in BootCpus :
        /\ boot[p].pc \in {"create", "create_load", "create_map"} =>
               /\ id_maps[0].addr = layout.tramp
               /\ id_maps[1].addr = layout.stack[p]
        /\ boot[p].pc \in OnPhysical => IdMapped(p)

\* the positions of arch_shutdown_mmu between spin_lock and spin_unlock, and
\* those after spin_unlock
InLock == {"sd_map_stack", "sd_map_tramp", "sd_unlock"}
AfterLock == {"sd_dflush", "sd_sctlr", "sd_hmair", "sd_ttbr0", "sd_tcr", "sd_hvbar",
              "sd_vmreturn", "left"}

\* C14: with several cores in arch_shutdown_mmu, a core creates its two
\* identity mappings only while it holds map_lock, so at most one core at a
\* time writes hv_paging_structs; the core has released the lock when it
\* cleans the caches and runs the trampoline, and it holds no lock when it
\* has left the hypervisor.
C14_ShutdownMapsUnderLock ==
    /\ \A p \in BootCpus :
          /\ boot[p].pc \in InLock => map_lock = p
          /\ boot[p].pc \in AfterLock => map_lock # p
    /\ Cardinality({p \in BootCpus : boot[p].pc \in InLock}) <= 1
    /\ (\A p \in BootCpus : boot[p].pc = "left") => map_lock = NoHolder

\* one core creates its mappings while another waits for the lock
C14_Witness ==
    \E p, q \in BootCpus :
        /\ p # q
        /\ boot[p].pc = "sd_map_tramp"
        /\ map_lock = p
        /\ boot[q].pc = "sd_lock"

(***************************************************************************)
(* Properties of check_mmu_map.                                            *)
(***************************************************************************)
\* the translation of JAILHOUSE_BASE through the table faults or is not the
\* address core p expects
BaseMismatch(p) ==
    \/ HvVirt2Phys(hv_table, JailhouseBasePage) = INVALID_PHYS_ADDR
    \/ HvVirt2Phys(hv_table, JailhouseBasePage) # boot[p].base_phys

\* what a step may do to a core in check_mmu_map: on a mismatch the core
\* comes to a halt, and a halted core stays as it is, with its registers, its
\* log and the identity-map slots it reserved
HaltStep(p) ==
    /\ (boot[p].pc = "check" /\ boot'[p].pc # "check") =>
           IF BaseMismatch(p)
           THEN boot'[p].pc = "halted"
           ELSE boot'[p].pc = "hvbar" /\ boot'[p].state = "HYP_VIRTUAL"
    /\ boot[p].pc = "halted" =>
           /\ boot'[p] = boot[p]
           /\ hreg'[p] = hreg[p]
           /\ boot_log'[p] = boot_log[p]
    /\ boot'[p].pc = "halted" =>
           /\ hreg'[p].hvbar # HypVectors
           /\ ~\E k \in 1 .. Len(boot_log'[p]) : boot_log'[p][k] = "paging_destroy"

\* C15: when check_mmu_map finds that the translation of JAILHOUSE_BASE
\* faults or differs from the expected address, the core halts for good: it
\* never writes hyp_vectors to HVBAR, never runs destroy_id_maps and
\* switch_exception_level never returns; when the translation matches, the
\* core goes on in HYP_VIRTUAL and switch_exception_level returns 0.
C15_HaltOnMismatch ==
    /\ [][\A p \in BootCpus : HaltStep(p)]_vars
    /\ \A p \in BootCpus :
          (boot[p].pc = "hvbar") ~>
              (boot[p].pc = "returned" /\ boot[p].ret = 0
                 /\ boot[p].state = "HYP_VIRTUAL")

\* a core has halted in check_mmu_map, its MMU on
C15_Witness ==
    \E p \in BootCpus :
        /\ boot[p].pc = "halted"
        /\ LogHas(p, "setup_mmu_el2")
        /\ "M" \in hreg[p].sctlr_el2


(***************************************************************************)
(* Properties of the doorbell.                                             *)
(***************************************************************************)
\* the cell of the endpoint a doorbell write is for: the remote of the
\* endpoint that was written
PeerCell(e) == ivshmem.ep[ivshmem.ep[e].remote].cell
OwnCell(e) == ivshmem.ep[e].cell

\* C16: a doorbell write on an endpoint sets one pending interrupt, on the
\* lowest core of the cell of the remote endpoint, with the number
\* vpci_irq_base of that cell + pin - 1, and changes nothing else; stated
\* for cells that have cores, the pin being that of either endpoint of the
\* device
C16_DoorbellTargetsRemoteCell ==
    bell_call.op = "doorbell" =>
        LET e == bell_call.ep
            r == ivshmem.ep[e].remote
            c == PeerCell(e)
        IN  (ivshmem.cpu_set[c] # {} /\ ivshmem.cpu_set[OwnCell(e)] # {}) =>
                \E x \in {e, r} :
                    irq_pending =
                        [bell_call.before EXCEPT ![FirstCpu(ivshmem.cpu_set[c])] =
                            @ \cup {ivshmem.vpci_irq_base[c]
                                    + PinOf(ivshmem.ep[x].cfg_int) - 1}]

\* C17: a doorbell write whose destination cell has no core leaves every
\* per_cpu's pending interrupts as they were; stated for the case where
\* neither the written endpoint's cell nor its remote's cell has a core
C17_NoCoreNoInterrupt ==
    bell_call.op = "doorbell" =>
        LET e == bell_call.ep
        IN  (ivshmem.cpu_set[PeerCell(e)] = {} /\ ivshmem.cpu_set[OwnCell(e)] = {})
                => irq_pending = bell_call.before


\* the pages of the two slots as switch_exception_level sets them for core p
SlotPages(p) == {PageMasked(layout.tramp), PageMasked(layout.stack[p])}

\* C18: on one core, the other idle, a call of switch_exception_level that
\* returns 0 leaves hv_paging_structs as it was at the call, and an entry
\* that was valid at the call is the same at every point of the call
C18_IdMapsNotPersisted ==
    LET p == BootCore
    IN  boot[p].entry # NoOp =>
            /\ \A pg \in HvPages :
                   boot[p].entry.hv_table[pg].valid =>
                       hv_table[pg] = boot[p].entry.hv_table[pg]
            /\ (boot[p].pc = "returned" /\ boot[p].ret = 0) =>
                   hv_table = boot[p].entry.hv_table

\* a call has returned 0 with both slots on one page: slot 0 was created and
\* destroyed, slot 1 found slot 0's mapping and kept out
C18_Witness ==
    LET p == BootCore
    IN  /\ boot[p].pc = "returned" /\ boot[p].ret = 0
        /\ Cardinality(SlotPages(p)) = 1
        /\ ~id_maps[0].conflict /\ id_maps[1].conflict
        /\ LogHas(p, "paging_create") /\ LogHas(p, "paging_destroy")

\* a call has returned 0 that found the trampoline page mapped before
C18_WitnessConflict ==
    LET p == BootCore
    IN  /\ boot[p].pc = "returned" /\ boot[p].ret = 0
        /\ id_maps[0].conflict
        /\ boot[p].entry.hv_table[TrampPage].valid


Rep(x, n) == [k \in 1 .. n |-> x]
IsPrefix(a, b) == Len(a) <= Len(b) /\ a = SubSeq(b, 1, Len(a))

\* what a core has done after the test of saved_vectors and the query it may
\* have made
AfterQuery(log) ==
    IF log # <<>> /\ log[1] = "hvc_query" THEN Tail(log) ELSE log

\* the steps of a run in their order, with k mappings created and j destroyed
OrderedRun(k, j) ==
    <<"set_id_map", "set_id_map">> \o Rep("paging_create", k)
        \o <<"dcache_clean", "cpu_switch_el2", "setup_mmu_el2", "check_mmu_map",
             "hvbar">>
        \o Rep("paging_destroy", j)

\* C19: what a core has done in switch_exception_level is at every point a
\* beginning of, and when it has returned 0 the whole of: both slots set, the
\* mappings of the slots without conflict created, the data caches cleaned,
\* the switch to EL2, setup_mmu_el2, check_mmu_map, HVBAR written, the
\* mappings destroyed; so the core writes no entry of hv_paging_structs
\* between the clean and setup_mmu_el2
C19_BootOrder ==
    \A p \in BootCpus :
        LET run == AfterQuery(boot_log[p])
        IN  /\ \E k, j \in 0 .. IdMapSlots : IsPrefix(run, OrderedRun(k, j))
            /\ (boot[p].pc = "returned" /\ boot[p].ret = 0) =>
                   /\ \E k, j \in 0 .. IdMapSlots : run = OrderedRun(k, j)
                   /\ "M" \in hreg[p].sctlr_el2
                   /\ hreg[p].hvbar = HypVectors

\* a core has returned 0 after creating and destroying both mappings
C19_Witness ==
    \E p \in BootCpus :
        /\ boot[p].pc = "returned" /\ boot[p].ret = 0
        /\ AfterQuery(boot_log[p]) = OrderedRun(IdMapSlots, IdMapSlots)


\* what a core has done from the spin_lock of arch_shutdown_mmu on
RECURSIVE FromLock(_)
FromLock(log) ==
    IF log = <<>> THEN <<>>
    ELSE IF Head(log) = "spin_lock" THEN log
    ELSE FromLock(Tail(log))

\* the steps of arch_shutdown_mmu and shutdown_el2 in their order
ShutdownRun ==
    <<"spin_lock", "sd_map_stack", "sd_map_tramp", "spin_unlock",
      "sd_dcache_clean", "sd_sctlr", "sd_hmair", "sd_ttbr0", "sd_tcr",
      "sd_hvbar", "vmreturn">>

InShutdown == {"sd_lock", "sd_map_stack", "sd_map_tramp", "sd_unlock", "sd_dflush",
               "sd_sctlr", "sd_hmair", "sd_ttbr0", "sd_tcr", "sd_hvbar",
               "sd_vmreturn", "left"}

\* a core that has left is at EL1 on physical addresses with the MMU and the
\* caches of EL2 off, HMAIR, TTBR0_EL2 and TCR_EL2 zero, HVBAR as saved, and
\* runs the context saved at its entry
LeftState(p) ==
    /\ boot_log[p] # <<>> /\ FromLock(boot_log[p]) = ShutdownRun
    /\ boot[p].state = "HOST_PHYSICAL_EL1"
    /\ hreg[p].el = "EL1"
    /\ hreg[p].sctlr_el2 \cap {"M", "C", "I"} = {}
    /\ hreg[p].hmair = "0" /\ hreg[p].ttbr0 = "0" /\ hreg[p].tcr = "0"
    /\ hreg[p].hvbar = saved_vectors
    /\ boot[p].resumed = guest_regs[p]
    /\ HvVirt2Phys(hv_table, PageMasked(layout.stack[p])) = PageMasked(layout.stack[p])
    /\ HvVirt2Phys(hv_table, PageMasked(layout.tramp)) = PageMasked(layout.tramp)

\* C20: what a core does in arch_shutdown_mmu is at every point a beginning
\* of: the stack and trampoline pages mapped onto themselves under the lock,
\* the data caches cleaned, SCTLR_EL2 M, C, I cleared, HMAIR, TTBR0_EL2,
\* TCR_EL2 zeroed, HVBAR restored, vmreturn; a core that has left has done
\* all of it and is in HOST_PHYSICAL_EL1; and a core in arch_shutdown_mmu
\* never gets back to the caller: it stays in it or has left for good
C20_ShutdownOrder ==
    /\ [](\A p \in BootCpus :
            /\ IsPrefix(FromLock(boot_log[p]), ShutdownRun)
            /\ boot[p].pc = "left" => LeftState(p))
    /\ [][\A p \in BootCpus :
            /\ boot[p].pc \in InShutdown => boot'[p].pc \in InShutdown
            /\ boot[p].pc = "left" => (boot'[p] = boot[p] /\ hreg'[p] = hreg[p])]_vars

\* a core that had the MMU of EL2 on has gone through the shutdown and left
C20_Witness ==
    \E p \in BootCpus :
        /\ boot[p].pc = "left"
        /\ LogHas(p, "setup_mmu_el2")
        /\ FromLock(boot_log[p]) = ShutdownRun
        /\ hreg[p].ttbr0 = "0"


(***************************************************************************)
(* Properties of setup_mmu_el2.                                            *)
(***************************************************************************)
CacheBits == {"C", "I"}

\* C21: once setup_mmu_el2 has run on a core that called
\* switch_exception_level with SCTLR_EL2.M clear, SCTLR_EL2 has M set and
\* its C and I bits are those of SCTLR_EL1
C21_CacheBitsFollowEl1 ==
    LET p == BootCore
    IN  (LogHas(p, "setup_mmu_el2") /\ "M" \notin boot[p].entry.hreg.sctlr_el2) =>
            /\ "M" \in hreg[p].sctlr_el2
            /\ hreg[p].sctlr_el2 \cap CacheBits = hreg[p].sctlr_el1 \cap CacheBits


\* the positions from which the core executes cpu_switch_el2 or runs at EL2
\* on physical addresses
AtSwitch == {"switch"} \cup OnPhysical

\* C22: on one core, the other idle, from the point where cpu_switch_el2 is
\* about to be executed until setup_mmu_el2 is through, the trampoline page
\* and the stack page of the core translate to themselves in
\* hv_paging_structs
C22_SwitchOnlyWhenIdMapped ==
    LET p == BootCore
    IN  boot[p].pc \in AtSwitch => IdMapped(p)

====
